---- MODULE Spec2Model ----
(***************************************************************************)
(* Model of dstools' sklearn_extension/preprocessing/data.py: the five     *)
(* pipeline transformers NormDistOutlierRemover, IQROutlierRemover,        *)
(* QuantileOutlierRemover, OrdinalEncoder and CorrelationRemover.          *)
(*                                                                         *)
(* One estimator instance is modelled at a time.  `self` is the instance's *)
(* attribute dictionary (a function from attribute names to values, so     *)
(* that hasattr is membership in DOMAIN self), `call` is the call being    *)
(* made on it (operation and arguments), `result` what that call returned  *)
(* or raised, and `warned` the messages it passed to warnings.warn.        *)
(*                                                                         *)
(* pandas / numpy / scipy primitives (mean, std, quantile, skew, corr) are *)
(* not part of the repository: their results are inputs of the fit         *)
(* actions, constrained only by what the primitive guarantees.             *)
(***************************************************************************)
EXTENDS Integers, Sequences, FiniteSets, TLC

VARIABLES self, call, result, warned

vars == <<self, call, result, warned>>

(***************************************************************************)
(* Python values                                                           *)
(***************************************************************************)
\* None and a present value: an optional is a sequence of length 0 or 1.
None == <<>>

Some(v) == <<v>>

IsNone(o) == o = <<>>

Get(o) == o[1]

hasattr(obj, name) == name \in DOMAIN obj

setattr(obj, name, v) == (name :> v) @@ obj

SeqToSet(s) == {s[i] : i \in 1..Len(s)}

Contains(s, x) == \E i \in 1..Len(s) : s[i] = x

IndexOf(s, x) == CHOOSE i \in 1..Len(s) : s[i] = x /\ \A k \in 1..(i-1) : s[k] # x

\* [c for c in s if Keep[c]]
RECURSIVE Filter(_, _)
Filter(s, keepSet) ==
    IF s = <<>> THEN <<>>
    ELSE IF Head(s) \in keepSet THEN <<Head(s)>> \o Filter(Tail(s), keepSet)
    ELSE Filter(Tail(s), keepSet)

\* every sequence that lists the elements of S once: the orders in which
\* list(set(...)) can enumerate a set of str keys (str hashes are salted per
\* interpreter run, so the order is not a function of the set).
Perms(S) == {s \in [1..Cardinality(S) -> S] : \A i, j \in 1..Cardinality(S) : s[i] = s[j] => i = j}

\* the calls a raised exception leaves behind: no return value
Raised(exc) == [outcome |-> exc, out |-> None]

Returned(v) == [outcome |-> "ok", out |-> Some(v)]

NoCall == [op |-> "__init__"]

(***************************************************************************)
(* DataFrame: ordered column labels and the values of each column          *)
(***************************************************************************)
DataFrame(columns, data) == [columns |-> columns, data |-> data]

\* `col in X`
HasColumn(X, c) == Contains(X.columns, c)

\* x = X.copy(): the assignments of transform go to the copy x, and the
\* caller's table X holds after the call what it held before
CallerTable(X, x) == X

\* X[cols] for a list of labels present in X
Select(X, cols) == DataFrame(cols, [c \in SeqToSet(cols) |-> X.data[c]])

(***************************************************************************)
(* CorrelationRemover                                                      *)
(***************************************************************************)
\* Cell values of the tables given to CorrelationRemover: two numbers, two
\* strings and the missing marker.
NumberValues == {"n1", "n2"}

NaN == "NaN"

\* a column whose cells are numbers or missing has a numeric dtype, any
\* other column has dtype object
IsNumberColumn(X, c) == \A k \in 1..Len(X.data[c]) : X.data[c][k] \in NumberValues \cup {NaN}

\* X.select_dtypes(include=['object']).columns.tolist()
select_dtypes_object(X) == Filter(X.columns, {c \in SeqToSet(X.columns) : ~IsNumberColumn(X, c)})

fillna(v, sentinel) == IF v = NaN THEN sentinel ELSE v

\* (s1.fillna('_MISSING_') == s2.fillna('_MISSING_')).mean(), as the fraction
\* num / den
cat_corr(s1, s2) ==
    [num |-> Cardinality({k \in 1..Len(s1) : fillna(s1[k], "_MISSING_") = fillna(s2[k], "_MISSING_")}),
     den |-> Len(s1)]

\* the symmetric agreement matrix of the columns of X
cat_corr_matrix(X) ==
    [p \in SeqToSet(X.columns) \X SeqToSet(X.columns) |-> cat_corr(X.data[p[1]], X.data[p[2]])]

\* num_corr_mat.loc[c_a, c_b] > self.threshold, coefficients in thousandths
NumExceeds(num_corr_mat, threshold) ==
    [p \in DOMAIN num_corr_mat |-> num_corr_mat[p] > threshold]

\* cat_corr_mat.loc[c_a, c_b] > self.threshold for a fraction num / den
CatExceeds(cat_corr_mat, threshold) ==
    [p \in DOMAIN cat_corr_mat |-> cat_corr_mat[p].num * 1000 > threshold * cat_corr_mat[p].den]

\* The two nested loops of one elimination pass over the list seq, from the
\* pair (i, j) on.  acc.drop is self.drop_cols; acc.by lists, for every
\* append, the pair (c_a, c_b) that made it.
RECURSIVE ElimPass(_, _, _, _, _)
\* the pass in which a column already dropped drops no later column
ElimPass_from_kept(seq, exceeds, i, j, acc) ==
    IF i > Len(seq) THEN acc
    ELSE IF j > Len(seq) THEN ElimPass(seq, exceeds, i + 1, i + 2, acc)
    ELSE LET c_a == seq[i]
             c_b == seq[j]
             hit == /\ ~Contains(acc.drop, c_a)
                    /\ ~Contains(acc.drop, c_b)
                    /\ exceeds[<<c_a, c_b>>]
         IN  ElimPass(seq, exceeds, i, j + 1,
                      IF hit THEN [drop |-> Append(acc.drop, c_b),
                                   by |-> Append(acc.by, <<c_a, c_b>>)]
                      ELSE acc)

ElimPass(seq, exceeds, i, j, acc) ==
    IF i > Len(seq) THEN acc
    ELSE IF j > Len(seq) THEN ElimPass(seq, exceeds, i + 1, i + 2, acc)
    ELSE LET c_a == seq[i]
             c_b == seq[j]
             hit == ~Contains(acc.drop, c_b) /\ exceeds[<<c_a, c_b>>]
         IN  ElimPass(seq, exceeds, i, j + 1,
                      IF hit THEN [drop |-> Append(acc.drop, c_b),
                                   by |-> Append(acc.by, <<c_a, c_b>>)]
                      ELSE acc)

\* cols = self.cols or X.columns.tolist()
FitCols(obj, X) ==
    IF IsNone(obj.cols) \/ Get(obj.cols) = <<>> THEN X.columns ELSE Get(obj.cols)

\* set(cols) - set(self.categorical_cols)
NumericalSet(obj, X) == SeqToSet(FitCols(obj, X)) \ SeqToSet(obj.categorical_cols)

\* DataFrame.corr converts every column to float and raises on a column of
\* dtype object
CorrRaises(X, numset) == \E c \in numset : ~IsNumberColumn(X, c)

\* CorrelationRemover.fit(X).  corr is what X[numerical_cols].corr().abs()
\* returns and numerical_cols the order in which list(set(...)) enumerated
\* the numeric columns.
CorrelationRemover_fit(X, corr, numerical_cols) ==
    LET cols == FitCols(self, X)
        _error_cols == SeqToSet(cols) \ SeqToSet(X.columns)
        detected == IF self.categorical_cols # <<>> THEN self.categorical_cols
                    ELSE select_dtypes_object(X)
        categorical_cols == Filter(detected, SeqToSet(cols))
        self1 == [self EXCEPT !.cols = Some(cols)]
        self2 == [self1 EXCEPT !.categorical_cols = categorical_cols, !.drop_cols = Some(<<>>)]
        start == [drop |-> <<>>, by |-> <<>>]
        num == IF numerical_cols # <<>>
               THEN ElimPass(numerical_cols, NumExceeds(corr, self.threshold), 1, 2, start)
               ELSE start
        cat == IF categorical_cols # <<>>
               THEN ElimPass(categorical_cols,
                             CatExceeds(cat_corr_matrix(Select(X, categorical_cols)), self.threshold),
                             1, 2, num)
               ELSE num
        keep_cols == Filter(cols, SeqToSet(cols) \ SeqToSet(cat.drop))
    IN  /\ self.class = "CorrelationRemover"
        /\ call' = [op |-> "fit", X |-> X, corr |-> corr]
        /\ warned' = <<>>
        /\ IF _error_cols # {}
           THEN /\ self' = self1
                /\ result' = Raised("ValueError")
           ELSE IF numerical_cols # <<>> /\ CorrRaises(X, SeqToSet(numerical_cols))
           THEN /\ self' = self2
                /\ result' = Raised("ValueError")
           ELSE /\ self' = setattr([self2 EXCEPT !.drop_cols = Some(cat.drop)], "keep_cols", keep_cols)
                /\ result' = [outcome |-> "ok", out |-> Some("self"),
                              numerical_cols |-> numerical_cols,
                              categorical_cols |-> categorical_cols,
                              by |-> cat.by]

\* CorrelationRemover.transform(X)
CorrelationRemover_transform(X) ==
    /\ self.class = "CorrelationRemover"
    /\ call' = [op |-> "transform", X |-> X, after |-> X]
    /\ warned' = <<>>
    /\ self' = self
    /\ IF IsNone(self.drop_cols) THEN result' = Raised("NotFittedError")
       ELSE IF ~hasattr(self, "keep_cols") THEN result' = Raised("AttributeError")
       ELSE IF \E c \in SeqToSet(self.keep_cols) : ~HasColumn(X, c) THEN result' = Raised("KeyError")
       ELSE result' = Returned(Select(X, self.keep_cols))

\* __init__(cols, categorical_cols, threshold): save_corr keeps its default
\* False and method its default 'pearson'
CorrelationRemover_init(cols, categorical_cols, threshold) ==
    [class |-> "CorrelationRemover", cols |-> cols, categorical_cols |-> categorical_cols,
     threshold |-> threshold, drop_cols |-> None]

\* ---- the inputs explored ----
CorrRows == 2

CorrColumnData ==
    {d \in [1..CorrRows -> NumberValues \cup {"x", "y", NaN}] :
        \/ \A k \in 1..CorrRows : d[k] = (IF k = 1 THEN "n1" ELSE "n2")
        \/ /\ d[1] = "x"
           /\ \A k \in 2..CorrRows : d[k] = d[2]
           /\ d[CorrRows] \in {"y", NaN}}

CorrColumnLists == {<<"A", "B", "C">>, <<"A", "B">>}

CorrTables ==
    UNION {{DataFrame(cs, d) : d \in [SeqToSet(cs) -> CorrColumnData]} : cs \in CorrColumnLists}

\* coefficients in thousandths: below the threshold, equal to it, above it
CorrLevels == {100, 800, 900}

\* threshold=0.8, the default
Thresholds == {800}

UnorderedPairs(S) == {p \in SUBSET S : Cardinality(p) = 2}

\* the symmetric matrices with unit diagonal over the columns S
CorrMatrices(S) ==
    {[p \in S \X S |-> IF p[1] = p[2] THEN 1000 ELSE u[{p[1], p[2]}]] :
        u \in [UnorderedPairs(S) -> CorrLevels]}

CorrResults(X, numset) ==
    IF numset = {} \/ numset \ SeqToSet(X.columns) # {} \/ CorrRaises(X, numset)
    THEN {<<>>} ELSE CorrMatrices(numset)

CorrColsArgs == {None, Some(<<"A", "B", "C">>), Some(<<"C", "B", "A">>)}

CorrCategoricalArgs == {<<>>, <<"C">>, <<"C", "B">>}

InitCorr ==
    /\ self \in {CorrelationRemover_init(c, cc, t) :
                    c \in CorrColsArgs, cc \in CorrCategoricalArgs, t \in Thresholds}
    /\ call = NoCall
    /\ result = Returned("self")
    /\ warned = <<>>

\* the enumeration orders of the numeric columns; a call that raises before
\* its first pass does so whatever the order, and one order stands for all
NumericalOrders(X, numset) ==
    IF numset \ SeqToSet(X.columns) # {} \/ CorrRaises(X, numset)
    THEN {CHOOSE s \in Perms(numset) : TRUE} ELSE Perms(numset)

CorrFit ==
    /\ self.class = "CorrelationRemover"
    /\ \E X \in CorrTables :
        \E corr \in CorrResults(X, NumericalSet(self, X)) :
            \E numerical_cols \in NumericalOrders(X, NumericalSet(self, X)) :
                CorrelationRemover_fit(X, corr, numerical_cols)

\* transform only looks at the labels of its argument
CorrTransformTables ==
    {DataFrame(cs, [c \in SeqToSet(cs) |-> [k \in 1..CorrRows |-> "n1"]]) : cs \in CorrColumnLists}

CorrTransform == \E X \in CorrTransformTables : CorrelationRemover_transform(X)

NextCorr == CorrFit \/ CorrTransform

SpecCorr == InitCorr /\ [][NextCorr]_vars

(***************************************************************************)
(* The three outlier removers                                              *)
(***************************************************************************)
\* Cells of the tables given to the outlier removers are integers; nan is
\* numpy.nan, which compares False with everything.
nan == 0 - 1

gt(a, b) == a # nan /\ b # nan /\ a > b

lt(a, b) == a # nan /\ b # nan /\ a < b

\* float arithmetic: nan propagates
add(a, b) == IF a = nan \/ b = nan THEN nan ELSE a + b

sub(a, b) == IF a = nan \/ b = nan THEN nan ELSE a - b

mul(a, b) == IF a = nan \/ b = nan THEN nan ELSE a * b

\* x.loc[x[col] > upper_bound, col] = upper_bound, for one cell
ClipAbove(v, upper_bound) == IF gt(v, upper_bound) THEN upper_bound ELSE v

\* x.loc[x[col] < lower_bound, col] = lower_bound, for one cell
ClipBelow(v, lower_bound) == IF lt(v, lower_bound) THEN lower_bound ELSE v

\* the first assignment without the second: nothing is raised to the lower
\* bound
ClipColumnAboveOnly(column, lower_bound, upper_bound) ==
    [k \in 1..Len(column) |-> ClipAbove(column[k], upper_bound)]

\* the two assignments in the order the code makes them
ClipColumn(column, lower_bound, upper_bound) ==
    [k \in 1..Len(column) |-> ClipBelow(ClipAbove(column[k], upper_bound), lower_bound)]

SetColumn(X, c, column) == [X EXCEPT !.data[c] = column]

MissingMsg(col) == <<"Column {} is not found in the DataFrame", col>>

\* The loop `for col in self.cols` of NormDistOutlierRemover.transform and
\* IQROutlierRemover.transform, from position i on.  acc.x is the copy being
\* modified, acc.warned the warnings emitted so far.
RECURSIVE BoundsLoop(_, _, _, _, _, _)
BoundsLoop(cols, error, lower, upper, i, acc) ==
    IF i > Len(cols) THEN [outcome |-> "ok", x |-> acc.x, warned |-> acc.warned]
    ELSE LET col == cols[i]
             missing == ~HasColumn(acc.x, col)
             w == IF missing /\ error = "warn"
                  THEN Append(acc.warned, MissingMsg(col)) ELSE acc.warned
         IN  IF missing /\ error = "raise"
             THEN [outcome |-> "ValueError", x |-> acc.x, warned |-> acc.warned]
             ELSE IF missing
             \* x[col] on a label that is not a column
             THEN [outcome |-> "KeyError", x |-> acc.x, warned |-> w]
             ELSE BoundsLoop(cols, error, lower, upper, i + 1,
                             [x |-> SetColumn(acc.x, col,
                                              ClipColumn(acc.x.data[col], lower[col], upper[col])),
                              warned |-> w])

LoopResult(r) == IF r.outcome = "ok" THEN Returned(r.x) ELSE Raised(r.outcome)

\* X = X[self.cols] if self.cols else X; self.cols = self.cols or X.columns
\* (NormDistOutlierRemover.fit, IQROutlierRemover.fit).  The default scope is
\* stored as the pandas Index X.columns, whose truth value is an error.
ScopeOutcome(obj, X) ==
    IF obj.cols_is_index THEN "ValueError"
    ELSE IF ~IsNone(obj.cols) /\ Get(obj.cols) # <<>>
            /\ SeqToSet(Get(obj.cols)) \ SeqToSet(X.columns) # {} THEN "KeyError"
    ELSE "ok"

ScopeIsDefault(obj) == IsNone(obj.cols) \/ Get(obj.cols) = <<>>

ScopeCols(obj, X) == IF ScopeIsDefault(obj) THEN X.columns ELSE Get(obj.cols)

WithScope(obj, X) ==
    [obj EXCEPT !.cols = Some(ScopeCols(obj, X)),
                !.cols_is_index = ScopeIsDefault(obj)]

\* ---- NormDistOutlierRemover ----
NormDistOutlierRemover_init(n_sigma, cols, error) ==
    [class |-> "NormDistOutlierRemover", n_sigma |-> n_sigma, cols |-> cols,
     cols_is_index |-> FALSE, error |-> error]

\* fit(X): mean and std are X.mean() and X.std() over the scope columns
NormDistOutlierRemover_fit(X, mean, std) ==
    /\ self.class = "NormDistOutlierRemover"
    /\ call' = [op |-> "fit", X |-> X]
    /\ warned' = <<>>
    /\ IF ScopeOutcome(self, X) # "ok"
       THEN /\ self' = self
            /\ result' = Raised(ScopeOutcome(self, X))
       ELSE /\ self' = setattr(setattr(WithScope(self, X), "mean_", mean), "std_", std)
            /\ result' = Returned("self")

NormDistLower(obj) ==
    [c \in DOMAIN obj.mean_ |-> sub(obj.mean_[c], mul(obj.n_sigma, obj.std_[c]))]

NormDistUpper(obj) ==
    [c \in DOMAIN obj.mean_ |-> add(obj.mean_[c], mul(obj.n_sigma, obj.std_[c]))]

NormDistOutlierRemover_run(obj, X) ==
    IF ~(hasattr(obj, "mean_") /\ hasattr(obj, "std_"))
    THEN [outcome |-> "NotFittedError", x |-> X, warned |-> <<>>]
    ELSE BoundsLoop(Get(obj.cols), obj.error, NormDistLower(obj), NormDistUpper(obj), 1,
                    [x |-> X, warned |-> <<>>])

\* ---- IQROutlierRemover ----
IQROutlierRemover_init(multiplier, cols, error) ==
    [class |-> "IQROutlierRemover", multiplier |-> multiplier, cols |-> cols,
     cols_is_index |-> FALSE, error |-> error]

\* fit(X): q[c] = <<q1, q2, q3>> are the three X.quantile results of column c
IQROutlierRemover_fit(X, q) ==
    /\ self.class = "IQROutlierRemover"
    /\ call' = [op |-> "fit", X |-> X]
    /\ warned' = <<>>
    /\ IF ScopeOutcome(self, X) # "ok"
       THEN /\ self' = self
            /\ result' = Raised(ScopeOutcome(self, X))
       ELSE /\ self' = setattr(setattr(WithScope(self, X), "q2", [c \in DOMAIN q |-> q[c][2]]),
                               "iqr", [c \in DOMAIN q |-> sub(q[c][3], q[c][1])])
            /\ result' = Returned("self")

IQRLower(obj) ==
    [c \in DOMAIN obj.q2 |-> sub(obj.q2[c], mul(obj.multiplier, obj.iqr[c]))]

IQRUpper(obj) ==
    [c \in DOMAIN obj.q2 |-> add(obj.q2[c], mul(obj.multiplier, obj.iqr[c]))]

IQROutlierRemover_run(obj, X) ==
    IF ~hasattr(obj, "iqr")
    THEN [outcome |-> "NotFittedError", x |-> X, warned |-> <<>>]
    ELSE BoundsLoop(Get(obj.cols), obj.error, IQRLower(obj), IQRUpper(obj), 1,
                    [x |-> X, warned |-> <<>>])

\* ---- QuantileOutlierRemover ----
\* skewness_threshold=0.8, the default, in thousandths
skewness_threshold == 800

QuantileOutlierRemover_init(cols, error) ==
    [class |-> "QuantileOutlierRemover", skewness_threshold |-> skewness_threshold,
     cols |-> cols, error |-> error, upper_threshold |-> None, lower_threshold |-> None]

\* the selection with >= in place of >: a column on the edge of the band
\* counts as positively skewed
pos_skew_inclusive(cols, skewness, threshold) ==
    Filter(cols, {c \in SeqToSet(cols) : skewness[c] # nan /\ skewness[c] >= threshold})

\* skewness[skewness > self.skewness_threshold].index.tolist()
pos_skew(cols, skewness, threshold) ==
    Filter(cols, {c \in SeqToSet(cols) : gt(skewness[c], threshold)})

\* skewness[skewness < -self.skewness_threshold].index.tolist()
neg_skew(cols, skewness, threshold) ==
    Filter(cols, {c \in SeqToSet(cols) : lt(skewness[c], 0 - threshold)})

\* fit(X): skewness is scipy's skew(X[cols]) in thousandths, upper and lower
\* the quantiles of the positively and of the negatively skewed columns.
\* Every column of the tables given to the removers is numeric, so the
\* default scope select_dtypes(include='number') is all of X.columns.
QuantileOutlierRemover_fit(X, skewness, upper, lower) ==
    LET cols == IF ScopeIsDefault(self) THEN X.columns ELSE Get(self.cols)
        self1 == [self EXCEPT !.cols = Some(cols)]
        pos_skew_cols == pos_skew(cols, skewness, self.skewness_threshold)
        neg_skew_cols == neg_skew(cols, skewness, self.skewness_threshold)
        self2 == setattr(setattr(setattr(self1, "skewness", skewness),
                                 "pos_skew_cols", pos_skew_cols),
                         "neg_skew_cols", neg_skew_cols)
        self3 == IF pos_skew_cols # <<>> THEN [self2 EXCEPT !.upper_threshold = Some(upper)]
                 ELSE self2
        self4 == IF neg_skew_cols # <<>> THEN [self3 EXCEPT !.lower_threshold = Some(lower)]
                 ELSE self3
    IN  /\ self.class = "QuantileOutlierRemover"
        /\ call' = [op |-> "fit", X |-> X]
        /\ warned' = <<>>
        /\ IF SeqToSet(cols) \ SeqToSet(X.columns) # {}
           THEN /\ self' = self1
                /\ result' = Raised("KeyError")
           ELSE /\ self' = self4
                /\ result' = Returned("self")

\* the loop over pos_skew_cols, then the loop over neg_skew_cols
RECURSIVE QuantileLoop(_, _, _, _)
QuantileLoop(cols, above, threshold, x) ==
    IF cols = <<>> THEN x
    ELSE LET col == Head(cols)
             column == [k \in 1..Len(x.data[col]) |->
                           IF above THEN ClipAbove(x.data[col][k], threshold[col])
                           ELSE ClipBelow(x.data[col][k], threshold[col])]
         IN  QuantileLoop(Tail(cols), above, threshold, SetColumn(x, col, column))

QuantileOutlierRemover_run(obj, X) ==
    IF ~hasattr(obj, "pos_skew_cols")
    THEN [outcome |-> "NotFittedError", x |-> X, warned |-> <<>>]
    ELSE LET pos_skew_cols == Filter(X.columns, SeqToSet(obj.pos_skew_cols))
             neg_skew_cols == Filter(X.columns, SeqToSet(obj.neg_skew_cols))
             x1 == IF pos_skew_cols = <<>> THEN X
                   ELSE QuantileLoop(pos_skew_cols, TRUE, Get(obj.upper_threshold), X)
             x2 == IF neg_skew_cols = <<>> THEN x1
                   ELSE QuantileLoop(neg_skew_cols, FALSE, Get(obj.lower_threshold), x1)
         IN  [outcome |-> "ok", x |-> x2, warned |-> <<>>]

\* ---- transform of the three removers ----
Remover_run(obj, X) ==
    IF obj.class = "NormDistOutlierRemover" THEN NormDistOutlierRemover_run(obj, X)
    ELSE IF obj.class = "IQROutlierRemover" THEN IQROutlierRemover_run(obj, X)
    ELSE QuantileOutlierRemover_run(obj, X)

\* a transform that narrows self.cols to the columns of the table it is given
Remover_transform_narrowing(class, X) ==
    /\ self.class = class
    /\ call' = [op |-> "transform", X |-> X, after |-> CallerTable(X, Remover_run(self, X).x)]
    /\ self' = IF IsNone(self.cols) THEN self
               ELSE [self EXCEPT !.cols = Some(Filter(Get(self.cols), SeqToSet(X.columns)))]
    /\ warned' = Remover_run(self, X).warned
    /\ result' = LoopResult(Remover_run(self, X))

Remover_transform(class, X) ==
    /\ self.class = class
    /\ call' = [op |-> "transform", X |-> X, after |-> CallerTable(X, Remover_run(self, X).x)]
    /\ self' = self
    /\ warned' = Remover_run(self, X).warned
    /\ result' = LoopResult(Remover_run(self, X))

NormDistOutlierRemover_transform(X) == Remover_transform("NormDistOutlierRemover", X)

IQROutlierRemover_transform(X) == Remover_transform("IQROutlierRemover", X)

QuantileOutlierRemover_transform(X) == Remover_transform("QuantileOutlierRemover", X)

\* ---- the inputs explored ----
MaxValue == 4

ClipValues == 0..MaxValue \cup {nan}

ClipColumnLists == {<<"a", "b">>, <<"a">>}

\* one-row tables: column a takes every value, column b the two extremes
ClipCells(c) == IF c = "a" THEN ClipValues ELSE {0, MaxValue}

ClipTables ==
    UNION {{DataFrame(cs, [c \in SeqToSet(cs) |-> <<d[c]>>]) :
               d \in {e \in [SeqToSet(cs) -> ClipValues] : \A c \in SeqToSet(cs) : e[c] \in ClipCells(c)}} :
              cs \in ClipColumnLists}

\* the reference tables: fit reads their labels, the statistics are inputs
ClipFitTables ==
    {DataFrame(cs, [c \in SeqToSet(cs) |-> <<1, 3>>]) : cs \in ClipColumnLists}

ClipColsArgs == {None, Some(<<"a">>), Some(<<"a", "b">>)}

\* the three documented policies and a string that is none of them
ErrorArgs == {"raise", "warn", "ignore", "log"}

Multipliers == {1, 2}

Means == {2}

\* a standard deviation is not negative; it is nan for a single observation
Stds == {0, 1, nan}

\* q1 <= q2 <= q3, or nan for a column without observations
Quartiles == {<<2, 2, 2>>, <<1, 2, 3>>, <<nan, nan, nan>>}

\* within the band, on its edge, beyond it on either side
SkewLevels == {0 - 1200, 0 - skewness_threshold, skewness_threshold, 1200}

UpperQuantiles == {2, 3}

LowerQuantiles == {1}

InitClip ==
    /\ self \in {NormDistOutlierRemover_init(k, c, e) :
                    k \in Multipliers, c \in ClipColsArgs, e \in ErrorArgs}
             \cup {IQROutlierRemover_init(k, c, e) :
                    k \in Multipliers, c \in ClipColsArgs, e \in ErrorArgs}
             \cup {QuantileOutlierRemover_init(c, e) : c \in ClipColsArgs, e \in ErrorArgs}
    /\ call = NoCall
    /\ result = Returned("self")
    /\ warned = <<>>

FitScope(obj, X) == IF ScopeOutcome(obj, X) = "ok" THEN SeqToSet(ScopeCols(obj, X)) ELSE {}

NormDistFit ==
    /\ self.class = "NormDistOutlierRemover"
    /\ \E X \in ClipFitTables :
        \E mean \in [FitScope(self, X) -> Means], std \in [FitScope(self, X) -> Stds] :
            NormDistOutlierRemover_fit(X, mean, std)

NormDistTransform == \E X \in ClipTables : NormDistOutlierRemover_transform(X)

IQRFit ==
    /\ self.class = "IQROutlierRemover"
    /\ \E X \in ClipFitTables :
        \E q \in [FitScope(self, X) -> Quartiles] : IQROutlierRemover_fit(X, q)

IQRTransform == \E X \in ClipTables : IQROutlierRemover_transform(X)

QuantileFit ==
    /\ self.class = "QuantileOutlierRemover"
    /\ \E X \in ClipFitTables :
        LET cols == IF ScopeIsDefault(self) THEN X.columns ELSE Get(self.cols)
            scope == IF SeqToSet(cols) \subseteq SeqToSet(X.columns) THEN SeqToSet(cols) ELSE {}
        IN  \E skewness \in [scope -> SkewLevels] :
                LET pos == IF scope = {} THEN {}
                           ELSE SeqToSet(pos_skew(cols, skewness, self.skewness_threshold))
                    neg == IF scope = {} THEN {}
                           ELSE SeqToSet(neg_skew(cols, skewness, self.skewness_threshold))
                IN  \E upper \in [pos -> UpperQuantiles], lower \in [neg -> LowerQuantiles] :
                        QuantileOutlierRemover_fit(X, skewness, upper, lower)

QuantileTransform == \E X \in ClipTables : QuantileOutlierRemover_transform(X)

NextClip ==
    \/ NormDistFit
    \/ NormDistTransform
    \/ IQRFit
    \/ IQRTransform
    \/ QuantileFit
    \/ QuantileTransform

SpecClip == InitClip /\ [][NextClip]_vars

(***************************************************************************)
(* OrdinalEncoder                                                          *)
(***************************************************************************)
\* Cells of the tables given to OrdinalEncoder: the integers 1 and 2
\* ("int:1", "int:2"), Python strings (any other TLA+ string) and NaN.
\* Series.astype(str): str() of every cell
astype_str(v) ==
    IF v = "int:1" THEN "1"
    ELSE IF v = "int:2" THEN "2"
    ELSE IF v = NaN THEN "nan"
    ELSE v

\* the strings of the model in Python's order of str
StrOrder == <<"1", "2", "_MISSING", "a", "b", "c", "d", "nan">>

\* sorted(set(values)) for a sequence of strings
sorted_set(values) == Filter(StrOrder, SeqToSet(values))

MapSeq(values, Op(_)) == [k \in 1..Len(values) |-> Op(values[k])]

fill_missing(v) == fillna(v, "_MISSING")

\* assert_all_finite(..., allow_nan=False) raises on a missing value
HasNaN(values) == \E k \in 1..Len(values) : values[k] = NaN

UnseenMsg(key) == <<"y contains previously unseen labels: %s", key>>

\* _encode_python with the code of the last category as the unseen code
_encode_python_last_code(values, uniques, unseen) ==
    LET table(v) == IndexOf(uniques, v) - 1
        known(v) == Contains(uniques, v)
        UNSEEN == Len(uniques) - 1
        e == values[CHOOSE k \in 1..Len(values) :
                       ~known(values[k]) /\ \A m \in 1..(k-1) : known(values[m])]
    IN  IF \A k \in 1..Len(values) : known(values[k])
        THEN [outcome |-> "ok", encoded |-> MapSeq(values, table), warned |-> <<>>]
        ELSE IF unseen \in {"silent", "warn"}
        THEN [outcome |-> "ok",
              encoded |-> [k \in 1..Len(values) |->
                              IF known(values[k]) THEN table(values[k]) ELSE UNSEEN],
              warned |-> IF unseen = "warn" THEN <<UnseenMsg(e)>> ELSE <<>>]
        ELSE [outcome |-> "ValueError", encoded |-> <<>>, warned |-> <<>>]

\* _encode_python(values, uniques, encode=True, unseen): table maps the k-th
\* entry of uniques to k - 1; the KeyError carries the first value of the
\* column that is not a key of table
_encode_python(values, uniques, unseen) ==
    LET table(v) == IndexOf(uniques, v) - 1
        known(v) == Contains(uniques, v)
        UNSEEN == Len(uniques)
        e == values[CHOOSE k \in 1..Len(values) :
                       ~known(values[k]) /\ \A m \in 1..(k-1) : known(values[m])]
    IN  IF \A k \in 1..Len(values) : known(values[k])
        THEN [outcome |-> "ok", encoded |-> MapSeq(values, table), warned |-> <<>>]
        ELSE IF unseen \in {"silent", "warn"}
        THEN [outcome |-> "ok",
              encoded |-> [k \in 1..Len(values) |->
                              IF known(values[k]) THEN table(values[k]) ELSE UNSEEN],
              warned |-> IF unseen = "warn" THEN <<UnseenMsg(e)>> ELSE <<>>]
        ELSE [outcome |-> "ValueError", encoded |-> <<>>, warned |-> <<>>]

OrdinalEncoder_init(cols, fill, error, unseen) ==
    [class |-> "OrdinalEncoder", cols |-> cols, fill |-> fill, error |-> error,
     unseen |-> unseen]

\* OrdinalEncoder.fit(X): self.cols is read, never assigned
OrdinalEncoder_fit(X) ==
    LET scoped == ~IsNone(self.cols) /\ Get(self.cols) # <<>>
        Xs == IF scoped THEN Select(X, Get(self.cols)) ELSE X
        filled(c) == IF self.fill THEN MapSeq(Xs.data[c], fill_missing) ELSE Xs.data[c]
        categories_ == [c \in SeqToSet(Xs.columns) |-> sorted_set(MapSeq(filled(c), astype_str))]
    IN  /\ self.class = "OrdinalEncoder"
        /\ call' = [op |-> "fit", X |-> X]
        /\ warned' = <<>>
        /\ IF scoped /\ SeqToSet(Get(self.cols)) \ SeqToSet(X.columns) # {}
           THEN /\ self' = self
                /\ result' = Raised("KeyError")
           ELSE IF ~self.fill /\ \E c \in SeqToSet(Xs.columns) : HasNaN(Xs.data[c])
           THEN /\ self' = self
                /\ result' = Raised("ValueError")
           ELSE /\ self' = setattr(self, "categories_", categories_)
                /\ result' = Returned("self")

\* The loop `for col in self.cols` of OrdinalEncoder.transform, from position
\* i on.  acc.x is the copy being modified, acc.warned the warnings emitted so
\* far and acc.encs the calls of _encode_python made so far: column, values
\* passed, vocabulary passed and what the call did.
RECURSIVE EncoderLoop(_, _, _, _)
EncoderLoop(obj, cols, i, acc) ==
    IF i > Len(cols) THEN [outcome |-> "ok", x |-> acc.x, warned |-> acc.warned, encs |-> acc.encs]
    ELSE LET col == cols[i]
             missing == ~HasColumn(acc.x, col)
             w == IF missing /\ obj.error = "warn"
                  THEN Append(acc.warned, MissingMsg(col)) ELSE acc.warned
             values == IF obj.fill
                       THEN MapSeq(MapSeq(acc.x.data[col], fill_missing), astype_str)
                       ELSE acc.x.data[col]
             enc == _encode_python(values, obj.categories_[col], obj.unseen)
             encs == Append(acc.encs, [col |-> col, values |-> values,
                                       uniques |-> obj.categories_[col], did |-> enc])
         IN  IF missing /\ obj.error = "raise"
             THEN [outcome |-> "ValueError", x |-> acc.x, warned |-> acc.warned, encs |-> acc.encs]
             ELSE IF missing
             \* x[col] on a label that is not a column
             THEN [outcome |-> "KeyError", x |-> acc.x, warned |-> w, encs |-> acc.encs]
             ELSE IF ~obj.fill /\ HasNaN(acc.x.data[col])
             THEN [outcome |-> "ValueError", x |-> acc.x, warned |-> w, encs |-> acc.encs]
             ELSE IF col \notin DOMAIN obj.categories_
             THEN [outcome |-> "KeyError", x |-> acc.x, warned |-> w, encs |-> acc.encs]
             ELSE IF enc.outcome # "ok"
             THEN [outcome |-> enc.outcome, x |-> acc.x, warned |-> w, encs |-> encs]
             ELSE EncoderLoop(obj, cols, i + 1,
                              [x |-> SetColumn(acc.x, col, enc.encoded),
                               warned |-> w \o enc.warned, encs |-> encs])

OrdinalEncoder_run(obj, X) ==
    IF ~hasattr(obj, "categories_")
    THEN [outcome |-> "NotFittedError", x |-> X, warned |-> <<>>, encs |-> <<>>]
    ELSE IF IsNone(obj.cols)
    \* for col in None
    THEN [outcome |-> "TypeError", x |-> X, warned |-> <<>>, encs |-> <<>>]
    ELSE EncoderLoop(obj, Get(obj.cols), 1, [x |-> X, warned |-> <<>>, encs |-> <<>>])

OrdinalEncoder_transform(X) ==
    LET r == OrdinalEncoder_run(self, X)
    IN  /\ self.class = "OrdinalEncoder"
        /\ call' = [op |-> "transform", X |-> X, after |-> CallerTable(X, r.x)]
        /\ self' = self
        /\ warned' = r.warned
        /\ result' = [outcome |-> r.outcome,
                      out |-> IF r.outcome = "ok" THEN Some(r.x) ELSE None,
                      encs |-> r.encs]

\* ---- the inputs explored ----
EncColumnLists == {<<"a", "b">>, <<"a">>}

\* two-row columns: strings, integers, a missing value, values that no
\* other column holds
EncCells(c) ==
    IF c = "a"
    THEN {<<"a", "b">>, <<"a", "a">>, <<"int:1", "int:2">>, <<"a", NaN>>, <<"c", "d">>}
    ELSE {<<"a", "a">>, <<"c", "c">>}

EncTables ==
    UNION {{DataFrame(cs, d) :
               d \in {e \in [SeqToSet(cs) -> EncCells("a") \cup EncCells("b")] :
                         \A c \in SeqToSet(cs) : e[c] \in EncCells(c)}} :
              cs \in EncColumnLists}

EncColsArgs == {None, Some(<<"a">>), Some(<<"a", "b">>)}

\* the three documented policies and a string that is none of them
UnseenArgs == {"raise", "warn", "silent", "log"}

InitEnc ==
    /\ self \in {OrdinalEncoder_init(c, f, e, u) :
                    c \in EncColsArgs, f \in BOOLEAN, e \in ErrorArgs, u \in UnseenArgs}
    /\ call = NoCall
    /\ result = Returned("self")
    /\ warned = <<>>

EncFit == \E X \in EncTables : OrdinalEncoder_fit(X)

EncTransform == \E X \in EncTables : OrdinalEncoder_transform(X)

NextEnc == EncFit \/ EncTransform

SpecEnc == InitEnc /\ [][NextEnc]_vars

(***************************************************************************)
(* Any one of the five transformers                                        *)
(***************************************************************************)
Init == InitCorr \/ InitClip \/ InitEnc

Next == NextCorr \/ NextClip \/ NextEnc

Spec == Init /\ [][Next]_vars

(***************************************************************************)
(* CorrelationRemover: properties                                          *)
(***************************************************************************)
CorrFitted == call.op = "fit" /\ result.outcome = "ok"

\* the elimination passes as they would run in the order of self.cols
InColsOrder(cols, members) == Filter(cols, SeqToSet(members))

\* C1: fit runs its elimination passes in the order the caller listed the
\* columns in cols: the numeric and the categorical pass both enumerate their
\* columns by position in cols, and a pair of correlated columns marks only
\* the column listed later in cols.
C1_PassesFollowColsOrder ==
    CorrFitted =>
        /\ result.numerical_cols = InColsOrder(Get(self.cols), result.numerical_cols)
        /\ result.categorical_cols = InColsOrder(Get(self.cols), result.categorical_cols)
        /\ \A k \in 1..Len(result.by) :
              IndexOf(Get(self.cols), result.by[k][1]) < IndexOf(Get(self.cols), result.by[k][2])

\* three numeric columns, the middle one correlated with both ends and the
\* ends not correlated with each other
C2_Chain(first, middle, last) ==
    /\ CorrFitted
    /\ self.cols = Some(<<first, middle, last>>)
    /\ SeqToSet(result.numerical_cols) = {first, middle, last}
    /\ call.corr[<<first, middle>>] > self.threshold
    /\ call.corr[<<middle, last>>] > self.threshold
    /\ call.corr[<<first, last>>] <= self.threshold

\* C2: for cols = [A,B,C] with |corr(A,B)| and |corr(B,C)| above the threshold
\* and |corr(A,C)| not above it, fit drops B only and keeps [A,C]; for the
\* reversed list [C,B,A] it drops B only and keeps [C,A].
C2_MiddleDroppedEndsKept ==
    /\ C2_Chain("A", "B", "C") =>
          self.drop_cols = Some(<<"B">>) /\ self.keep_cols = <<"A", "C">>
    /\ C2_Chain("C", "B", "A") =>
          self.drop_cols = Some(<<"B">>) /\ self.keep_cols = <<"C", "A">>

\* C6 (CorrelationRemover): keep_cols is assigned by the last statement of
\* fit, so an instance without it has completed no fit; transform on such an
\* instance raises NotFittedError.
C6_TransformBeforeFitRaisesNotFitted ==
    (call.op = "transform" /\ ~hasattr(self, "keep_cols")) =>
        result.outcome = "NotFittedError"

(***************************************************************************)
(* The outlier removers: properties                                        *)
(***************************************************************************)
\* check_is_fitted passes
IsFitted(obj) ==
    IF obj.class = "NormDistOutlierRemover" THEN hasattr(obj, "mean_") /\ hasattr(obj, "std_")
    ELSE IF obj.class = "IQROutlierRemover" THEN hasattr(obj, "iqr")
    ELSE IF obj.class = "QuantileOutlierRemover" THEN hasattr(obj, "pos_skew_cols")
    ELSE IF obj.class = "OrdinalEncoder" THEN hasattr(obj, "categories_")
    ELSE ~IsNone(obj.drop_cols)

\* the columns of the configured scope that the table of the call lacks
MissingScope == {c \in SeqToSet(Get(self.cols)) : ~HasColumn(call.X, c)}

\* the fitted bounds of a column; nan stands for a side without a bound
LowerBound(obj, c) ==
    IF obj.class = "NormDistOutlierRemover" THEN NormDistLower(obj)[c]
    ELSE IF obj.class = "IQROutlierRemover" THEN IQRLower(obj)[c]
    ELSE IF Contains(obj.neg_skew_cols, c) THEN Get(obj.lower_threshold)[c]
    ELSE nan

UpperBound(obj, c) ==
    IF obj.class = "NormDistOutlierRemover" THEN NormDistUpper(obj)[c]
    ELSE IF obj.class = "IQROutlierRemover" THEN IQRUpper(obj)[c]
    ELSE IF Contains(obj.pos_skew_cols, c) THEN Get(obj.upper_threshold)[c]
    ELSE nan

Within(v, lower, upper) == ~lt(v, lower) /\ ~gt(v, upper)

TransformReturned == call.op = "transform" /\ result.outcome = "ok"

\* C3 (NormDistOutlierRemover, IQROutlierRemover): transform of a table that
\* lacks a scope column under error='warn' or 'ignore' returns a table; 'warn'
\* emits one diagnostic per missing scope column and 'ignore' none; the scope
\* columns that are present are clipped and every other column is unchanged.
C3_MissingColumnTolerated ==
    (/\ call.op = "transform"
     /\ self.class \in {"NormDistOutlierRemover", "IQROutlierRemover"}
     /\ IsFitted(self)
     /\ self.error \in {"warn", "ignore"}
     /\ MissingScope # {})
    => /\ result.outcome = "ok"
       /\ self.error = "warn" => \A c \in MissingScope : Contains(warned, MissingMsg(c))
       /\ self.error = "ignore" => warned = <<>>
       /\ \A c \in SeqToSet(call.X.columns) :
             Get(result.out).data[c] =
                 IF Contains(Get(self.cols), c)
                 THEN ClipColumn(call.X.data[c], LowerBound(self, c), UpperBound(self, c))
                 ELSE call.X.data[c]

\* C4: transform under error='raise' of a table that lacks a column of the
\* configured scope raises the missing-column ValueError and returns nothing,
\* for each of the three outlier removers.
C4_RaisePolicyFailsOnMissingColumn ==
    (/\ call.op = "transform"
     /\ IsFitted(self)
     /\ self.error = "raise"
     /\ MissingScope # {})
    => result.outcome = "ValueError" /\ IsNone(result.out)

\* C5: in the table transform returns, every cell of an in-scope column lies
\* within the fitted bounds of its column (on the fitted side only for
\* QuantileOutlierRemover; a missing cell stays missing), a cell that was
\* within the bounds is unchanged, and transform of the returned table returns
\* it unchanged.
C5_ClippedWithinBoundsIdempotent ==
    TransformReturned =>
        LET out == Get(result.out)
            again == Remover_run(self, out)
        IN  /\ \A c \in SeqToSet(Get(self.cols)) \cap SeqToSet(call.X.columns) :
                  \A k \in 1..Len(out.data[c]) :
                      /\ Within(out.data[c][k], LowerBound(self, c), UpperBound(self, c))
                      /\ call.X.data[c][k] = nan => out.data[c][k] = nan
                      /\ Within(call.X.data[c][k], LowerBound(self, c), UpperBound(self, c))
                            => out.data[c][k] = call.X.data[c][k]
            /\ again.outcome = "ok"
            /\ again.x = out

\* a returned table in which one in-scope cell was lowered to its upper bound
\* and returned tables with cells raised to a lower bound exist as well
C5_Witness ==
    /\ TransformReturned
    /\ \E c \in SeqToSet(Get(self.cols)) \cap SeqToSet(call.X.columns) :
          /\ gt(call.X.data[c][1], UpperBound(self, c))
          /\ Get(result.out).data[c][1] = UpperBound(self, c)
          /\ lt(0, LowerBound(self, c))

(***************************************************************************)
(* OrdinalEncoder: properties                                              *)
(***************************************************************************)
\* the values of one _encode_python call that are not in its vocabulary
UnseenIn(step) == SeqToSet(step.values) \ SeqToSet(step.uniques)

\* the first value of the call, in row order, that is not in its vocabulary
FirstUnseen(step) ==
    step.values[CHOOSE k \in 1..Len(step.values) :
                   /\ step.values[k] \in UnseenIn(step)
                   /\ \A m \in 1..(k-1) : step.values[m] \notin UnseenIn(step)]

IsUnseenMsg(m) == m[1] = UnseenMsg("")[1]

\* What the three unseen policies do with every column that holds a value
\* outside its vocabulary; Diagnosed(step) is what 'warn' has to emit.
UnseenPolicies(Diagnosed(_)) ==
    call.op = "transform" =>
        \A i \in 1..Len(result.encs) :
            LET step == result.encs[i]
            IN  UnseenIn(step) # {} =>
                  /\ self.unseen = "raise" => result.outcome = "ValueError" /\ IsNone(result.out)
                  /\ self.unseen \in {"warn", "silent"} =>
                        /\ step.did.outcome = "ok"
                        /\ \A k \in 1..Len(step.values) :
                              step.values[k] \in UnseenIn(step)
                                  => step.did.encoded[k] = Len(step.uniques)
                  /\ self.unseen = "silent" =>
                        \A m \in 1..Len(warned) : ~IsUnseenMsg(warned[m])
                  /\ self.unseen = "warn" => Diagnosed(step)

\* a diagnostic that lists the values of the column that are not in the
\* vocabulary
ListsOffending(step) ==
    \E m \in 1..Len(warned) : IsUnseenMsg(warned[m]) /\ {warned[m][2]} = UnseenIn(step)

\* a diagnostic that names the first value of the column that is not in the
\* vocabulary
NamesFirstOffending(step) ==
    \E m \in 1..Len(warned) : warned[m] = UnseenMsg(FirstUnseen(step))

\* C7 as stated: unseen='raise' fails the whole transform; 'warn' and
\* 'silent' encode the column with every unseen value mapped to the unseen
\* index; 'silent' emits no diagnostic and 'warn' a diagnostic that lists the
\* offending values.
C7_WarnListsOffendingValues == UnseenPolicies(ListsOffending)

\* C7 amended: as above, but the diagnostic of 'warn' names the first
\* offending value of the column only.
C7_WarnNamesFirstOffendingValue == UnseenPolicies(NamesFirstOffending)

\* a column with two different unseen values encoded under unseen='warn'
C7_Witness ==
    /\ call.op = "transform"
    /\ self.unseen = "warn"
    /\ result.outcome = "ok"
    /\ \E i \in 1..Len(result.encs) :
          /\ Cardinality(UnseenIn(result.encs[i])) = 2
          /\ result.encs[i].did.encoded = <<Len(result.encs[i].uniques), Len(result.encs[i].uniques)>>

\* the string a cell stands for under the fill rule of the instance
Stringified(obj, v) == astype_str(IF obj.fill THEN fill_missing(v) ELSE v)

\* C8: in a returned table every code of an encoded column is in
\* 0..len(categories); a cell gets the code len(categories) exactly if its
\* stringified form is not in the vocabulary of its column, and a cell whose
\* stringified form is in the vocabulary gets a smaller code.
C8_UnseenCodeOnlyForUnseen ==
    TransformReturned =>
        \A c \in SeqToSet(Get(self.cols)) :
            \A k \in 1..Len(call.X.data[c]) :
                LET code == Get(result.out).data[c][k]
                    categories == self.categories_[c]
                    known == Contains(categories, Stringified(self, call.X.data[c][k]))
                IN  /\ code \in 0..Len(categories)
                    /\ code = Len(categories) <=> ~known
                    /\ known => code < Len(categories)

\* C9: transform of the very table fit has just been given returns a table in
\* which the code of every in-scope cell decodes, by position in
\* categories_, to the stringified cell.
C9_RoundTripOfFittedValues ==
    [][(/\ call.op = "fit"
        /\ result.outcome = "ok"
        /\ ~IsNone(self.cols)
        /\ call'.op = "transform"
        /\ call'.X = call.X)
       => /\ result'.outcome = "ok"
          /\ \A c \in SeqToSet(Get(self.cols)) :
                \A k \in 1..Len(call.X.data[c]) :
                    LET code == Get(result'.out).data[c][k]
                    IN  /\ code < Len(self.categories_[c])
                        /\ self.categories_[c][code + 1] = Stringified(self, call.X.data[c][k])]_vars

\* C10: every fit and every transform on an instance whose error or unseen
\* policy is not one of the documented strings raises the configuration
\* ValueError.
C10_UnknownPolicyAlwaysFatal ==
    (/\ call.op \in {"fit", "transform"}
     /\ \/ self.error \notin {"raise", "warn", "ignore"}
        \/ self.unseen \notin {"raise", "warn", "silent"})
    => result.outcome = "ValueError"

HasEntry(series, c) == ~IsNone(series) /\ c \in DOMAIN Get(series)

\* which sides of column c the fitted instance bounds
BoundedAbove(obj, c) == Contains(obj.pos_skew_cols, c) /\ HasEntry(obj.upper_threshold, c)

BoundedBelow(obj, c) == Contains(obj.neg_skew_cols, c) /\ HasEntry(obj.lower_threshold, c)

\* C12: after fit a column with skewness > skewness_threshold is bounded
\* above only, one with skewness < -skewness_threshold below only, and one
\* with skewness in the band, its edges included, on neither side; transform
\* lowers the cells of the first kind to the upper threshold, raises those of
\* the second kind to the lower threshold and returns the third kind as given.
C12_SkewDecidesTheBoundedSide ==
    (self.class = "QuantileOutlierRemover" /\ hasattr(self, "skewness")) =>
        /\ call.op = "fit" /\ result.outcome = "ok" =>
              \A c \in DOMAIN self.skewness :
                  /\ self.skewness[c] > self.skewness_threshold =>
                        BoundedAbove(self, c) /\ ~Contains(self.neg_skew_cols, c)
                  /\ self.skewness[c] < 0 - self.skewness_threshold =>
                        BoundedBelow(self, c) /\ ~Contains(self.pos_skew_cols, c)
                  /\ (/\ self.skewness[c] <= self.skewness_threshold
                      /\ self.skewness[c] >= 0 - self.skewness_threshold) =>
                        ~Contains(self.pos_skew_cols, c) /\ ~Contains(self.neg_skew_cols, c)
        /\ TransformReturned =>
              \A c \in DOMAIN self.skewness \cap SeqToSet(call.X.columns) :
                  \A k \in 1..Len(call.X.data[c]) :
                      LET v == call.X.data[c][k]
                          w == Get(result.out).data[c][k]
                      IN  /\ self.skewness[c] > self.skewness_threshold =>
                                w = ClipAbove(v, Get(self.upper_threshold)[c])
                          /\ self.skewness[c] < 0 - self.skewness_threshold =>
                                w = ClipBelow(v, Get(self.lower_threshold)[c])
                          /\ (/\ self.skewness[c] <= self.skewness_threshold
                              /\ self.skewness[c] >= 0 - self.skewness_threshold) => w = v

\* a returned table with a cell of a positively skewed column lowered to its
\* threshold next to a larger cell, left as given, of a column whose skewness
\* equals skewness_threshold
C12_Witness ==
    /\ self.class = "QuantileOutlierRemover"
    /\ TransformReturned
    /\ SeqToSet(call.X.columns) = {"a", "b"}
    /\ DOMAIN self.skewness = {"a", "b"}
    /\ self.skewness["a"] > self.skewness_threshold
    /\ gt(call.X.data["a"][1], Get(self.upper_threshold)["a"])
    /\ Get(result.out).data["a"][1] = Get(self.upper_threshold)["a"]
    /\ self.skewness["b"] = self.skewness_threshold
    /\ Get(result.out).data["b"][1] = MaxValue

(***************************************************************************)
(* OrdinalEncoder: default scope                                           *)
(***************************************************************************)
\* every cell of X, as transform would pass it to _encode_python, is in the
\* vocabulary of its column
InVocabulary(obj, X) ==
    \A c \in SeqToSet(X.columns) :
        /\ ~obj.fill => ~HasNaN(X.data[c])
        /\ SeqToSet(MapSeq(MapSeq(X.data[c], fill_missing), astype_str))
              \subseteq SeqToSet(obj.categories_[c])

\* C13: an encoder constructed without cols and fitted, given a table with
\* the columns fit built vocabularies for and only values of these
\* vocabularies, returns a table whose columns with a vocabulary are all
\* encoded.
C13_DefaultScopeEncodesAllColumns ==
    (/\ self.class = "OrdinalEncoder"
     /\ IsNone(self.cols)
     /\ hasattr(self, "categories_")
     /\ call.op = "transform"
     /\ SeqToSet(call.X.columns) = DOMAIN self.categories_
     /\ InVocabulary(self, call.X)) =>
        /\ result.outcome = "ok"
        /\ \A c \in DOMAIN self.categories_ :
              \E k \in 1..Len(result.encs) : result.encs[k].col = c

(***************************************************************************)
(* CorrelationRemover: one elimination pass                                *)
(***************************************************************************)
\* |correlation(a, b)| > threshold in the numeric pass of the last fit
NumOver(a, b) == call.corr[<<a, b>>] > self.threshold

\* the same in the categorical pass: the share of rows on which a and b agree
CatOver(a, b) ==
    LET r == cat_corr(call.X.data[a], call.X.data[b])
    IN  r.num * 1000 > self.threshold * r.den

\* column seq[j] is dropped exactly when an earlier column of seq is over the
\* threshold with it
DroppedIffEarlierOver(seq, Over(_, _)) ==
    \A j \in 1..Len(seq) :
        Contains(Get(self.drop_cols), seq[j]) <=> \E i \in 1..(j - 1) : Over(seq[i], seq[j])

====
